---- MODULE Spec2Model ----
(***************************************************************************)
(* Model of generate_log.py (riichi-forge): the constrained random draw    *)
(* generator, the call notation encoder, the discard builder and the       *)
(* assembly of the four (hand, draws, discards) triples.                   *)
(*                                                                         *)
(* Representation.  A Python list of tiles is a sequence.  The pool is a   *)
(* list in the program, but the program only tests membership, removes one *)
(* occurrence of a value and picks a random element, so the model keeps    *)
(* the number of copies of every tile value.  A Python int n is the record *)
(* [int |-> n] and a Python str is [str |-> <<characters>>] wherever the   *)
(* program mixes both in one list (draws and discards).                    *)
(***************************************************************************)
EXTENDS Integers, Sequences, FiniteSets, TLC

VARIABLES
    \* module-level configuration (lines 8-82)
    RULE, DORA_INDICATOR, HERO_SEAT, HERO_HAND, HERO_LAST_DRAW,
    HERO_LAST_DISCARD, HERO_LAST_DISCARD_TURN, HERO_LAST_ACTION,
    HERO_CALL_TILE, HERO_CHI_TILES, HERO_PON_SOURCE, HERO_KAN_SOURCE,
    OTHER_PLAYERS_ACTIONS,
    \* locals of generate_random_draws
    pool, draws, player_turns, round_num, seat_idx,
    \* what build_player_data receives and what it returns
    current_draws, player_data,
    \* position of the program
    pc,
    \* arguments and return value of a function applied on its own
    args, ret

config == <<RULE, DORA_INDICATOR, HERO_SEAT, HERO_HAND, HERO_LAST_DRAW,
            HERO_LAST_DISCARD, HERO_LAST_DISCARD_TURN, HERO_LAST_ACTION,
            HERO_CALL_TILE, HERO_CHI_TILES, HERO_PON_SOURCE, HERO_KAN_SOURCE,
            OTHER_PLAYERS_ACTIONS>>
locals == <<pool, draws, player_turns, round_num, seat_idx>>
vars == <<config, locals, current_draws, player_data, pc, args, ret>>

-----------------------------------------------------------------------------
(* Bounds of the model *)

\* largest HERO_LAST_DISCARD_TURN of the broad configurations
MaxN == 2
\* largest num_discards handed to build_other_player_discards on its own
MaxDiscards == 4

-----------------------------------------------------------------------------
(* Python values *)

PyInt(n) == [int |-> n]
PyStr(s) == [str |-> s]
PyNone == [none |-> TRUE]

Repeat(x, k) == [i \in 1..k |-> x]

DigitChar == <<"0", "1", "2", "3", "4", "5", "6", "7", "8", "9">>

\* str(n) for a non-negative int: its decimal digits
RECURSIVE Str(_)
Str(n) == IF n < 10 THEN <<DigitChar[n + 1]>>
          ELSE Str(n \div 10) \o <<DigitChar[(n % 10) + 1]>>

\* sorted(list of ints), by insertion
RECURSIVE Insert(_, _)
Insert(x, s) == IF s = <<>> THEN <<x>>
                ELSE IF x <= Head(s) THEN <<x>> \o s
                ELSE <<Head(s)>> \o Insert(x, Tail(s))

RECURSIVE sorted(_)
sorted(s) == IF s = <<>> THEN <<>> ELSE Insert(Head(s), sorted(Tail(s)))

-----------------------------------------------------------------------------
(* Tiles and the pool *)

Suits == {10, 20, 30}
honors == 41..47
TileValues == {s + n : s \in Suits, n \in 1..9} \cup honors \cup {51, 52, 53}

\* copies of each tile put into the pool
Copies == 4

\* a removal that takes every copy of the value
RemoveIfPresent_every_copy(p, tile) == [p EXCEPT ![tile] = 0]

\* one occurrence removed if present, nothing otherwise
\* ("if tile in pool: pool.remove(tile)")
RemoveIfPresent(p, tile) ==
    IF p[tile] > 0 THEN [p EXCEPT ![tile] = @ - 1] ELSE p

Append1(p, tile) == [p EXCEPT ![tile] = @ + 1]

\* occurrences of v in a list
Count(tiles, v) == Cardinality({i \in DOMAIN tiles : tiles[i] = v})

\* "for tile in tiles: if tile in pool: pool.remove(tile)": every occurrence
\* in tiles takes one copy of its value while a copy is left
RemoveEach(p, tiles) ==
    [v \in TileValues |->
        IF Count(tiles, v) < p[v] THEN p[v] - Count(tiles, v) ELSE 0]

\* lines 190-196: 4 copies of 11-19, 21-29, 31-39, 41-47
FullPool == [v \in TileValues |-> IF v \in {51, 52, 53} THEN 0 ELSE Copies]

\* lines 200-204: one 15, 25, 35 replaced by 51, 52, 53
RECURSIVE ReplaceReds(_, _)
ReplaceReds(p, pairs) ==
    IF pairs = <<>> THEN p
    ELSE LET normal == Head(pairs)[1]
             red == Head(pairs)[2]
         IN ReplaceReds(IF p[normal] > 0
                        THEN Append1(RemoveIfPresent(p, normal), red)
                        ELSE p,
                        Tail(pairs))

InitialPool(rule) ==
    IF rule.aka = 1
    THEN ReplaceReds(FullPool, <<<<15, 51>>, <<25, 52>>, <<35, 53>>>>)
    ELSE FullPool

\* lines 206-218: the pool the draws start from
PoolAfterFixedRemoval(rule, hand, last_draw, dora) ==
    RemoveEach(RemoveIfPresent(RemoveEach(InitialPool(rule), hand), last_draw),
               dora)

\* the tile values in ascending order
TileList == [i \in 1..9 |-> 10 + i] \o [i \in 1..9 |-> 20 + i]
              \o [i \in 1..9 |-> 30 + i] \o [i \in 1..7 |-> 40 + i]
              \o <<51, 52, 53>>

\* f summed over the first k tile values
RECURSIVE SumOver(_, _)
SumOver(f, k) == IF k = 0 THEN 0 ELSE f[TileList[k]] + SumOver(f, k - 1)

PoolSize(p) == SumOver(p, Len(TileList))

-----------------------------------------------------------------------------
(* Turn restrictions, lines 220-236 *)

terminals == {11, 19, 21, 29, 31, 39}
twos_eights == {12, 18, 22, 28, 32, 38}
threes_sevens == {13, 17, 23, 27, 33, 37}
middle == {14, 15, 16, 24, 25, 26, 34, 35, 36, 51, 52, 53}

\* the 2s and 8s allowed one turn early
get_allowed_tiles_from_turn_3(turn) ==
    (terminals \cup honors)
      \cup (IF turn >= 3 THEN twos_eights ELSE {})
      \cup (IF turn >= 6 THEN threes_sevens ELSE {})
      \cup (IF turn >= 7 THEN middle ELSE {})

get_allowed_tiles(turn) ==
    (terminals \cup honors)
      \cup (IF turn >= 4 THEN twos_eights ELSE {})
      \cup (IF turn >= 6 THEN threes_sevens ELSE {})
      \cup (IF turn >= 7 THEN middle ELSE {})

\* lines 240-243: the values random.choice can return
InPool(p) == {t \in TileValues : p[t] > 0}

\* the filtered tiles without the fallback to the whole pool
available_no_fallback(p, turn) ==
    {t \in InPool(p) : t \in get_allowed_tiles(turn)}

available(p, turn) ==
    LET filtered == {t \in InPool(p) : t \in get_allowed_tiles(turn)}
    IN IF filtered = {} THEN InPool(p) ELSE filtered

-----------------------------------------------------------------------------
(* Seats *)

seats == <<"EAST", "SOUTH", "WEST", "NORTH">>
RelPositions == <<"HERO", "SHIMO", "TOIMEN", "KAMI">>
Positions == {"HERO", "SHIMO", "TOIMEN", "KAMI"}

\* seats.index(HERO_SEAT)
index(seat) == CHOOSE i \in 0..3 : seats[i + 1] = seat

\* lines 256-261 and 357-362
abs_to_pos(hero_idx) ==
    [i \in 0..3 |-> RelPositions[((i - hero_idx + 4) % 4) + 1]]

-----------------------------------------------------------------------------
(* Call notation, lines 118-170 *)

\* lines 140-146: the sorted tiles joined, 'c' before each one equal to tile
RECURSIVE JoinChi(_, _)
JoinChi(all_tiles, tile) ==
    IF all_tiles = <<>> THEN <<>>
    ELSE (IF Head(all_tiles) = tile
          THEN <<"c">> \o Str(Head(all_tiles))
          ELSE Str(Head(all_tiles)))
         \o JoinChi(Tail(all_tiles), tile)

\* an open kan from SHIMO marked in the third slot
generate_call_notation_third_slot(action, tile, source, chi_tiles) ==
    LET t == Str(tile)
    IN CASE action = "CHI" -> JoinChi(sorted(chi_tiles \o <<tile>>), tile)
         [] action = "PON" ->
              IF source = "KAMI" THEN <<"p">> \o t \o t \o t
              ELSE IF source = "TOIMEN" THEN t \o <<"p">> \o t \o t
              ELSE t \o t \o <<"p">> \o t
         [] action = "KAN" ->
              IF source = "KAMI" THEN <<"m">> \o t \o t \o t \o t
              ELSE IF source = "TOIMEN" THEN t \o <<"m">> \o t \o t \o t
              ELSE t \o t \o <<"m">> \o t \o t
         [] action = "ANKAN" -> t \o t \o t \o <<"a">> \o t
         [] OTHER -> t

\* a closed kan written with three tiles, like a pon
generate_call_notation_short_ankan(action, tile, source, chi_tiles) ==
    LET t == Str(tile)
    IN CASE action = "CHI" -> JoinChi(sorted(chi_tiles \o <<tile>>), tile)
         [] action = "PON" ->
              IF source = "KAMI" THEN <<"p">> \o t \o t \o t
              ELSE IF source = "TOIMEN" THEN t \o <<"p">> \o t \o t
              ELSE t \o t \o <<"p">> \o t
         [] action = "KAN" ->
              IF source = "KAMI" THEN <<"m">> \o t \o t \o t \o t
              ELSE IF source = "TOIMEN" THEN t \o <<"m">> \o t \o t \o t
              ELSE t \o t \o t \o <<"m">> \o t
         [] action = "ANKAN" -> t \o t \o <<"a">> \o t
         [] OTHER -> t

generate_call_notation(action, tile, source, chi_tiles) ==
    LET t == Str(tile)
    IN CASE action = "CHI" -> JoinChi(sorted(chi_tiles \o <<tile>>), tile)
         [] action = "PON" ->
              IF source = "KAMI" THEN <<"p">> \o t \o t \o t
              ELSE IF source = "TOIMEN" THEN t \o <<"p">> \o t \o t
              ELSE t \o t \o <<"p">> \o t
         [] action = "KAN" ->
              IF source = "KAMI" THEN <<"m">> \o t \o t \o t \o t
              ELSE IF source = "TOIMEN" THEN t \o <<"m">> \o t \o t \o t
              ELSE t \o t \o t \o <<"m">> \o t
         [] action = "ANKAN" -> t \o t \o t \o <<"a">> \o t
         [] OTHER -> t

-----------------------------------------------------------------------------
(* Discards of the other players, lines 296-327 *)

\* a riichi turn equal to the number of discards taken as too late
build_other_player_discards_off_by_one(rel_pos, num_discards) ==
    IF ~OTHER_PLAYERS_ACTIONS[rel_pos].present
    THEN Repeat(PyInt(60), num_discards)
    ELSE LET riichi_turn ==
                 IF OTHER_PLAYERS_ACTIONS[rel_pos].has_turn
                 THEN OTHER_PLAYERS_ACTIONS[rel_pos].RIICHI_TURN
                 ELSE 0
         IN IF riichi_turn <= 0 \/ riichi_turn >= num_discards
            THEN Repeat(PyInt(60), num_discards)
            ELSE [turn \in 1..num_discards |->
                     IF turn = riichi_turn THEN PyStr(<<"r", "6", "0">>)
                     ELSE PyInt(60)]

\* An entry of OTHER_PLAYERS_ACTIONS is [present |-> the position is a key of
\* the dict, has_turn |-> its dict has the key RIICHI_TURN, RIICHI_TURN |-> n]
build_other_player_discards(rel_pos, num_discards) ==
    IF ~OTHER_PLAYERS_ACTIONS[rel_pos].present
    THEN Repeat(PyInt(60), num_discards)
    ELSE LET riichi_turn ==
                 IF OTHER_PLAYERS_ACTIONS[rel_pos].has_turn
                 THEN OTHER_PLAYERS_ACTIONS[rel_pos].RIICHI_TURN
                 ELSE 0
         IN IF riichi_turn <= 0 \/ riichi_turn > num_discards
            THEN Repeat(PyInt(60), num_discards)
            ELSE [turn \in 1..num_discards |->
                     IF turn = riichi_turn THEN PyStr(<<"r", "6", "0">>)
                     ELSE PyInt(60)]

-----------------------------------------------------------------------------
(* build_player_data, lines 330-429 *)

\* lines 367-376
call_notation ==
    CASE HERO_LAST_ACTION = "CHI" ->
           PyStr(generate_call_notation("CHI", HERO_CALL_TILE, "None",
                                        HERO_CHI_TILES))
      [] HERO_LAST_ACTION = "PON" ->
           PyStr(generate_call_notation("PON", HERO_CALL_TILE,
                                        HERO_PON_SOURCE, <<>>))
      [] HERO_LAST_ACTION = "KAN" ->
           PyStr(generate_call_notation("KAN", HERO_CALL_TILE,
                                        HERO_KAN_SOURCE, <<>>))
      [] HERO_LAST_ACTION = "ANKAN" ->
           PyStr(generate_call_notation("ANKAN", HERO_CALL_TILE, "None",
                                        <<>>))
      [] OTHER -> PyNone

\* draws[-1] = x
SetLast(s, x) == [s EXCEPT ![Len(s)] = x]

\* a kan without the replacement draw
HeroDraws_no_rinshan(cd) ==
    LET copy == cd["HERO"]
    IN CASE HERO_LAST_ACTION \in {"CHI", "PON", "KAN", "ANKAN"} ->
              SetLast(copy, call_notation)
         [] OTHER -> copy

\* lines 387-414: the hero's draws
HeroDraws(cd) ==
    LET copy == cd["HERO"]
    IN CASE HERO_LAST_ACTION \in {"CHI", "PON"} -> SetLast(copy, call_notation)
         [] HERO_LAST_ACTION \in {"KAN", "ANKAN"} ->
              Append(SetLast(copy, call_notation), PyInt(HERO_LAST_DRAW))
         [] OTHER -> copy

\* lines 389-414: the hero's discards
HeroDiscards ==
    Repeat(PyInt(60), HERO_LAST_DISCARD_TURN - 1)
      \o <<IF HERO_LAST_ACTION = "RIICHI"
           THEN PyStr(<<"r">> \o Str(HERO_LAST_DISCARD))
           ELSE PyInt(HERO_LAST_DISCARD)>>

default_hand == Repeat(45, 13)

\* line 382: players 0..hero play n rounds, players after the hero n-1
full_rounds(i, hero_idx, n) == IF i <= hero_idx THEN n ELSE n - 1

\* lines 379-427: [hand, draws, discards] of absolute seat i
Triple(i, cd) ==
    LET hero_idx == index(HERO_SEAT)
        rel_pos == abs_to_pos(hero_idx)[i]
        n == Len(cd["HERO"])
    IN IF rel_pos = "HERO"
       THEN <<HERO_HAND, HeroDraws(cd), HeroDiscards>>
       ELSE <<default_hand, cd[rel_pos],
              build_other_player_discards(rel_pos,
                                          full_rounds(i, hero_idx, n))>>

build_player_data(cd) ==
    Triple(0, cd) \o Triple(1, cd) \o Triple(2, cd) \o Triple(3, cd)

-----------------------------------------------------------------------------
(* Configurations the program is started with *)

\* the values in the source, lines 10-70
DefaultConfig ==
    [RULE |-> [aka |-> 1],
     DORA_INDICATOR |-> <<21>>,
     HERO_SEAT |-> "NORTH",
     HERO_HAND |-> <<13, 14, 17, 18, 19, 25, 26, 27, 28, 28, 31, 31, 33>>,
     HERO_LAST_DRAW |-> 32,
     HERO_LAST_DISCARD |-> 31,
     HERO_LAST_DISCARD_TURN |-> 8,
     HERO_LAST_ACTION |-> "RIICHI",
     HERO_CALL_TILE |-> 0,
     HERO_CHI_TILES |-> <<>>,
     HERO_PON_SOURCE |-> "KAMI",
     HERO_KAN_SOURCE |-> "KAMI",
     OTHER_PLAYERS_ACTIONS |->
        [p \in {"SHIMO", "TOIMEN", "KAMI"} |->
            [present |-> TRUE, has_turn |-> TRUE,
             RIICHI_TURN |-> IF p = "SHIMO" THEN 5 ELSE 0]]]

RECURSIVE ListOf(_, _)
ListOf(p, order) ==
    IF order = <<>> THEN <<>>
    ELSE Repeat(Head(order), p[Head(order)]) \o ListOf(p, Tail(order))

\* HERO_HAND is an unvalidated list.  A hand that holds every tile except
\* the fixed ones and the tiles of `rest` leaves `rest` as the pool the draws
\* are made from; `extra` adds tiles to the hand that the pool does not hold.
HandLeaving(rule, rest, last_draw, dora, extra) ==
    ListOf(RemoveEach(InitialPool(rule), rest \o <<last_draw>> \o dora),
           TileList) \o extra

RestA == <<11, 19, 45, 12, 14>>
RestB == <<11, 11, 19, 45, 45, 45, 45, 12, 13>>
RestC == <<12, 14, 14>>
RestD == <<11, 11, 11, 11, 19, 19, 19>>
\* twelve terminals for the twelve draws of turns 1-3, five 2s and 8s for
\* turns 4 and 5, four 3s
RestDeep == Repeat(11, 4) \o Repeat(19, 4) \o Repeat(29, 4)
              \o Repeat(12, 4) \o <<18>> \o Repeat(13, 4)

Variants ==
    {[aka |-> 1, dora |-> <<21>>, extra |-> <<>>],
     [aka |-> 0, dora |-> <<>>, extra |-> <<51>>],
     [aka |-> 1, dora |-> <<21, 22>>, extra |-> <<15, 32>>]}

WithPool(c, v, rest) ==
    [c EXCEPT !.RULE = [aka |-> v.aka],
              !.DORA_INDICATOR = v.dora,
              !.HERO_HAND = HandLeaving([aka |-> v.aka], rest,
                                        c.HERO_LAST_DRAW, v.dora, v.extra)]

SeatNames == {"EAST", "SOUTH", "WEST", "NORTH"}

\* seats, turns, pools and fixed tiles vary; the action is the default one
GenConfigs ==
    {WithPool([DefaultConfig EXCEPT !.HERO_SEAT = s,
                                    !.HERO_LAST_DISCARD_TURN = n], v, rest) :
        s \in SeatNames, n \in 1..MaxN, v \in Variants,
        rest \in {RestA, RestB, RestC}}

HeroActions ==
    {[a |-> "DISCARD", t |-> 0, chi |-> <<>>, src |-> "KAMI"],
     [a |-> "RIICHI", t |-> 0, chi |-> <<>>, src |-> "KAMI"],
     [a |-> "PASS", t |-> 0, chi |-> <<>>, src |-> "KAMI"],
     [a |-> "CHI", t |-> 32, chi |-> <<31, 33>>, src |-> "KAMI"],
     [a |-> "CHI", t |-> 13, chi |-> <<15, 14>>, src |-> "KAMI"],
     [a |-> "CHI", t |-> 51, chi |-> <<14, 16>>, src |-> "KAMI"],
     [a |-> "ANKAN", t |-> 28, chi |-> <<>>, src |-> "KAMI"],
     [a |-> "ANKAN", t |-> 0, chi |-> <<>>, src |-> "KAMI"]}
    \cup {[a |-> x, t |-> 28, chi |-> <<>>, src |-> y] :
            x \in {"PON", "KAN"}, y \in {"KAMI", "TOIMEN", "SHIMO"}}

Turn(n) == [present |-> TRUE, has_turn |-> TRUE, RIICHI_TURN |-> n]
NoTurn == [present |-> TRUE, has_turn |-> FALSE, RIICHI_TURN |-> 0]
NoEntry == [present |-> FALSE, has_turn |-> FALSE, RIICHI_TURN |-> 0]

OtherActions ==
    {DefaultConfig.OTHER_PLAYERS_ACTIONS,
     [SHIMO |-> Turn(1), TOIMEN |-> Turn(2), KAMI |-> Turn(-1)],
     [SHIMO |-> NoEntry, TOIMEN |-> NoTurn, KAMI |-> Turn(3)],
     [SHIMO |-> Turn(2), TOIMEN |-> Turn(1), KAMI |-> Turn(1)]}

\* one pool, enough for two rounds; seats, turns, hero actions and riichi
\* turns vary
ActConfigs ==
    {WithPool([DefaultConfig EXCEPT !.HERO_SEAT = s,
                                    !.HERO_LAST_DISCARD_TURN = n,
                                    !.HERO_LAST_ACTION = h.a,
                                    !.HERO_CALL_TILE = h.t,
                                    !.HERO_CHI_TILES = h.chi,
                                    !.HERO_PON_SOURCE = h.src,
                                    !.HERO_KAN_SOURCE = h.src,
                                    !.OTHER_PLAYERS_ACTIONS = o],
              [aka |-> 1, dora |-> <<21>>, extra |-> <<>>], RestD) :
        s \in SeatNames, n \in 1..MaxN, h \in HeroActions, o \in OtherActions}

\* the default seat with turns up to DeepN, on a pool that lasts into the
\* last of them, and one short game
DeepN == 6
DeepConfigs ==
    {WithPool([DefaultConfig EXCEPT !.HERO_LAST_DISCARD_TURN = DeepN],
              [aka |-> 1, dora |-> <<21>>, extra |-> <<>>], RestDeep),
     WithPool([DefaultConfig EXCEPT !.HERO_LAST_DISCARD_TURN = 1],
              [aka |-> 1, dora |-> <<21>>, extra |-> <<>>], RestA)}

-----------------------------------------------------------------------------
(* The program *)

Configured(c) ==
    /\ RULE = c.RULE
    /\ DORA_INDICATOR = c.DORA_INDICATOR
    /\ HERO_SEAT = c.HERO_SEAT
    /\ HERO_HAND = c.HERO_HAND
    /\ HERO_LAST_DRAW = c.HERO_LAST_DRAW
    /\ HERO_LAST_DISCARD = c.HERO_LAST_DISCARD
    /\ HERO_LAST_DISCARD_TURN = c.HERO_LAST_DISCARD_TURN
    /\ HERO_LAST_ACTION = c.HERO_LAST_ACTION
    /\ HERO_CALL_TILE = c.HERO_CALL_TILE
    /\ HERO_CHI_TILES = c.HERO_CHI_TILES
    /\ HERO_PON_SOURCE = c.HERO_PON_SOURCE
    /\ HERO_KAN_SOURCE = c.HERO_KAN_SOURCE
    /\ OTHER_PLAYERS_ACTIONS = c.OTHER_PLAYERS_ACTIONS

NoDraws == [p \in Positions |-> <<>>]

\* nothing generated, nothing assembled
Unstarted ==
    /\ pool = [v \in TileValues |-> 0]
    /\ draws = NoDraws
    /\ player_turns = [p \in Positions |-> 0]
    /\ round_num = 0
    /\ seat_idx = 0
    /\ current_draws = NoDraws
    /\ player_data = <<>>

\* the module is loaded: line 431 is about to call build_player_data
Init ==
    /\ \E c \in GenConfigs \cup ActConfigs : Configured(c)
    /\ Unstarted
    /\ pc = "start"
    /\ args = <<>>
    /\ ret = <<>>

InitDeep ==
    /\ \E c \in DeepConfigs : Configured(c)
    /\ Unstarted
    /\ pc = "start"
    /\ args = <<>>
    /\ ret = <<>>

n == HERO_LAST_DISCARD_TURN
hero_idx == index(HERO_SEAT)
pos == abs_to_pos(hero_idx)[seat_idx]
turn == player_turns[pos] + 1

\* lines 351, 287-291, 190-265: DRAWS is empty, so get_draws generates; the
\* pool is built and the fixed tiles are taken out of it
BuildPool ==
    /\ pc = "start"
    /\ pool' = PoolAfterFixedRemoval(RULE, HERO_HAND, HERO_LAST_DRAW,
                                     DORA_INDICATOR)
    /\ draws' = NoDraws
    /\ player_turns' = [p \in Positions |-> 0]
    /\ round_num' = 0
    /\ seat_idx' = 0
    /\ pc' = IF n > 0 THEN "loop" ELSE "tsumo"
    /\ UNCHANGED <<config, current_draws, player_data, args, ret>>

\* lines 268-269: the next iteration of the two loops
NextIteration ==
    /\ seat_idx' = (seat_idx + 1) % 4
    /\ round_num' = IF seat_idx = 3 THEN round_num + 1 ELSE round_num
    /\ pc' = IF seat_idx = 3 /\ round_num + 1 = n THEN "tsumo" ELSE "loop"

\* lines 270-276: the hero's last draw is the configured tile
HeroLastDraw ==
    /\ pc = "loop"
    /\ pos = "HERO" /\ turn = n
    /\ player_turns' = [player_turns EXCEPT ![pos] = turn]
    /\ draws' = [draws EXCEPT !["HERO"] = Append(@, PyInt(HERO_LAST_DRAW))]
    /\ NextIteration
    /\ UNCHANGED <<config, pool, current_draws, player_data, args, ret>>

\* lines 277-279 and 238-248: a tile is drawn from the pool
PoolDraw ==
    /\ pc = "loop"
    /\ ~(pos = "HERO" /\ turn = n)
    /\ \E tile \in available(pool, turn) :
          /\ pool' = RemoveIfPresent(pool, tile)
          /\ draws' = [draws EXCEPT ![pos] = Append(@, PyInt(tile))]
    /\ player_turns' = [player_turns EXCEPT ![pos] = turn]
    /\ NextIteration
    /\ UNCHANGED <<config, current_draws, player_data, args, ret>>

\* lines 244-245: ValueError("No tiles left in pool!") ends the program
NoTilesLeft ==
    /\ pc = "loop"
    /\ ~(pos = "HERO" /\ turn = n)
    /\ available(pool, turn) = {}
    /\ player_turns' = [player_turns EXCEPT ![pos] = turn]
    /\ pc' = "aborted"
    /\ UNCHANGED <<config, pool, draws, round_num, seat_idx, current_draws,
                   player_data, args, ret>>

\* lines 282-284 and 351: SHIMO's winning draw, and the draws are returned
ReturnDraws ==
    /\ pc = "tsumo"
    /\ draws' = [draws EXCEPT !["SHIMO"] = Append(@, PyInt(45))]
    /\ current_draws' = draws'
    /\ pc' = "build"
    /\ UNCHANGED <<config, pool, player_turns, round_num, seat_idx,
                   player_data, args, ret>>

\* lines 353-431: the four triples are assembled
BuildPlayerData ==
    /\ pc = "build"
    /\ player_data' = build_player_data(current_draws)
    /\ pc' = "done"
    /\ UNCHANGED <<config, locals, current_draws, args, ret>>

Next ==
    \/ BuildPool
    \/ HeroLastDraw
    \/ PoolDraw
    \/ NoTilesLeft
    \/ ReturnDraws
    \/ BuildPlayerData

Spec == Init /\ [][Next]_vars

SpecDeep == InitDeep /\ [][Next]_vars

-----------------------------------------------------------------------------
(* generate_call_notation applied on its own *)

ChiHandTiles == {12, 13, 14, 16, 51}

CallArgs ==
    [fn : {"generate_call_notation"},
     action : {"CHI", "PON", "KAN", "ANKAN", "DISCARD"},
     tile : TileValues \cup {0},
     source : {"KAMI", "TOIMEN", "SHIMO", "None"},
     chi_tiles : {<<a, b>> : a \in ChiHandTiles, b \in ChiHandTiles}]

InitCall ==
    /\ Configured(DefaultConfig)
    /\ Unstarted
    /\ pc = "call"
    /\ args \in CallArgs
    /\ ret = <<>>

CallNotation ==
    /\ pc = "call"
    /\ args.fn = "generate_call_notation"
    /\ ret' = PyStr(generate_call_notation(args.action, args.tile, args.source,
                                           args.chi_tiles))
    /\ pc' = "returned"
    /\ UNCHANGED <<config, locals, current_draws, player_data, args>>

NextCall == CallNotation

SpecCall == InitCall /\ [][NextCall]_vars

-----------------------------------------------------------------------------
(* build_other_player_discards applied on its own *)

Entries == {NoEntry, NoTurn} \cup {Turn(t) : t \in (0 - 1)..(MaxDiscards + 1)}

InitDiscards ==
    /\ \E e \in Entries, p \in {"SHIMO", "TOIMEN", "KAMI"}, c \in 0..MaxDiscards :
          /\ Configured([DefaultConfig EXCEPT !.OTHER_PLAYERS_ACTIONS[p] = e])
          /\ args = [fn |-> "build_other_player_discards", rel_pos |-> p,
                     num_discards |-> c]
    /\ Unstarted
    /\ pc = "call"
    /\ ret = <<>>

OtherDiscards ==
    /\ pc = "call"
    /\ args.fn = "build_other_player_discards"
    /\ ret' = build_other_player_discards(args.rel_pos, args.num_discards)
    /\ pc' = "returned"
    /\ UNCHANGED <<config, locals, current_draws, player_data, args>>

NextDiscards == OtherDiscards

SpecDiscards == InitDiscards /\ [][NextDiscards]_vars

-----------------------------------------------------------------------------
(* Properties of the draw generator *)

\* generate_random_draws has run to its return
Returned == pc \in {"build", "done"}
\* generate_random_draws has built its pool
Generating == pc \in {"loop", "tsumo", "build", "done", "aborted"}

Rank(v) == v % 10
Suited(v) == v \in 11..39

\* the table of allowed tiles, by rank
AllowedAt(v, t) ==
    \/ v \in 41..47
    \/ Suited(v) /\ Rank(v) \in {1, 9}
    \/ t >= 4 /\ Suited(v) /\ Rank(v) \in {2, 8}
    \/ t >= 6 /\ Suited(v) /\ Rank(v) \in {3, 7}
    \/ t >= 7 /\ Suited(v) /\ Rank(v) \in {4, 5, 6}
    \/ t >= 7 /\ v \in {51, 52, 53}

\* entry i of position p's draws came out of the pool: it is neither the
\* hero's configured last draw nor SHIMO's appended winning tile
FromPool(p, i) ==
    /\ i \in 1..Len(draws[p])
    /\ ~(p = "HERO" /\ i = n)
    /\ ~(p = "SHIMO" /\ Returned /\ i = Len(draws[p]))

PoolDraws == {<<p, i>> \in Positions \X (1..(4 * n + 1)) : FromPool(p, i)}

\* copies of v in the initial pool
InitialCopies(v) ==
    IF v \in {51, 52, 53} THEN (IF RULE.aka = 1 THEN 1 ELSE 0)
    ELSE IF v \in {15, 25, 35} /\ RULE.aka = 1 THEN 3
    ELSE 4

\* copies of v committed to the hero's hand, the hero's last draw and the
\* dora indicators
FixedCopies(v) ==
    Count(HERO_HAND, v) + Count(<<HERO_LAST_DRAW>>, v)
      + Count(DORA_INDICATOR, v)

\* copies of v the draws can take: those not committed
FreeCopies(v) ==
    IF FixedCopies(v) < InitialCopies(v)
    THEN InitialCopies(v) - FixedCopies(v) ELSE 0

FreeTiles == SumOver([v \in TileValues |-> FreeCopies(v)], Len(TileList))

\* the values drawn from the pool, one element per draw
DrawnFromPool == {<<d, draws[d[1]][d[2]].int>> : d \in PoolDraws}

C2_DrawnValueNotFixed ==
    Generating =>
       /\ PoolSize(pool) + Cardinality(PoolDraws) = FreeTiles
       /\ \A d \in PoolDraws :
             LET v == draws[d[1]][d[2]].int
             IN FixedCopies(v) = 0

\* C2 amended: the pool the draws start from holds, of every value, the
\* copies of the initial pool that are not committed to a fixed position;
\* every pool draw takes exactly one tile out of it, a copy that was in
\* it; and nothing else changes it.  So no committed copy is ever drawn,
\* while a value that has uncommitted copies left can be.
C2_DrawnCopyNotFixed ==
    [][/\ pc = "start" => \A v \in TileValues : pool'[v] = FreeCopies(v)
       /\ (pc = "loop" /\ pc' # "aborted" /\ ~(pos = "HERO" /\ turn = n)) =>
             \E tile \in TileValues :
                /\ pool[tile] > 0
                /\ draws'[pos] = Append(draws[pos], PyInt(tile))
                /\ pool' = [pool EXCEPT ![tile] = @ - 1]
                /\ PoolSize(pool') = PoolSize(pool) - 1
       /\ (pc # "start" /\ pool' # pool) =>
             (pc = "loop" /\ pc' # "aborted" /\ ~(pos = "HERO" /\ turn = n))
      ]_vars

\* a tile was drawn whose value is also in the hero's hand
C2_Witness ==
    /\ pc = "loop"
    /\ \E d \in PoolDraws : Count(HERO_HAND, draws[d[1]][d[2]].int) > 0

\* C3: HERO has N draws, a position seated before the hero N, a position
\* seated after the hero N-1, and SHIMO one more, the last.
C3_DrawCounts ==
    Returned =>
       \A i \in 0..3 :
          LET p == abs_to_pos(hero_idx)[i]
              rounds == IF i <= hero_idx THEN n ELSE n - 1
          IN IF p = "SHIMO"
             THEN /\ Len(current_draws[p]) = rounds + 1
                  /\ current_draws[p][rounds + 1] = PyInt(45)
             ELSE Len(current_draws[p]) = rounds

\* C8: generation aborts only on an empty pool, and does so exactly when
\* the 4N-1 pool draws exceed the tiles left after the fixed tiles are
\* removed; nothing is returned or assembled then.
C8_AbortOnlyWhenExhausted ==
    /\ pc = "aborted" =>
          /\ PoolSize(pool) = 0
          /\ Cardinality(PoolDraws) = FreeTiles
          /\ 4 * n - 1 > FreeTiles
          /\ current_draws = NoDraws
          /\ player_data = <<>>
    /\ pc \in {"tsumo", "build", "done"} =>
          /\ 4 * n - 1 <= FreeTiles
          /\ Cardinality(PoolDraws) = 4 * n - 1

\* generation aborted after a draw that fell back to the whole pool, with a
\* hand that names a tile the pool did not hold
C8_Witness ==
    /\ pc = "aborted"
    /\ \E d \in PoolDraws : ~AllowedAt(draws[d[1]][d[2]].int, d[2])
    /\ \E v \in TileValues : FixedCopies(v) > InitialCopies(v)

\* C10: when the fixed tiles were all in the initial pool, no value occurs
\* more often among the hand, the dora indicators and the returned draws
\* than in the initial pool.
C10_TileCounts ==
    (Returned /\ \A v \in TileValues : FixedCopies(v) <= InitialCopies(v)) =>
       \A v \in TileValues :
          Count(HERO_HAND, v) + Count(DORA_INDICATOR, v)
            + Cardinality({d \in Positions \X (1..(4 * n + 1)) :
                             /\ d[2] <= Len(current_draws[d[1]])
                             /\ current_draws[d[1]][d[2]] = PyInt(v)})
            <= InitialCopies(v)

-----------------------------------------------------------------------------
(* Properties of the assembled player data *)

\* draws and discards of absolute seat i in player_data
DrawsOf(i) == player_data[3 * i + 2]
DiscardsOf(i) == player_data[3 * i + 3]

\* C6: the hero's discards are N-1 fillers and the configured discard
\* (tagged for RIICHI); the hero's draws are the generated ones for DISCARD
\* and RIICHI, have the last entry overwritten by the call notation for CHI
\* and PON, and for KAN and ANKAN are overwritten there and extended by
\* HERO_LAST_DRAW; everything else, the generated draws included, is as
\* generated.
C6_HeroFinalSlots ==
    pc = "done" =>
       LET hd == DrawsOf(hero_idx)
           hx == DiscardsOf(hero_idx)
           gen == current_draws["HERO"]
       IN /\ Len(hx) = n
          /\ \A i \in 1..(n - 1) : hx[i] = PyInt(60)
          /\ hx[n] = IF HERO_LAST_ACTION = "RIICHI"
                     THEN PyStr(<<"r">> \o Str(HERO_LAST_DISCARD))
                     ELSE PyInt(HERO_LAST_DISCARD)
          /\ Len(gen) = n
          /\ gen[n] = PyInt(HERO_LAST_DRAW)
          /\ current_draws = draws
          /\ \A i \in 1..(n - 1) : hd[i] = gen[i]
          /\ HERO_LAST_ACTION \in {"DISCARD", "RIICHI"} => hd = gen
          /\ HERO_LAST_ACTION \in {"CHI", "PON"} =>
                /\ Len(hd) = n
                /\ hd[n] = call_notation
                /\ DOMAIN hd[n] = {"str"}
          /\ HERO_LAST_ACTION \in {"KAN", "ANKAN"} =>
                /\ Len(hd) = n + 1
                /\ hd[n] = call_notation
                /\ DOMAIN hd[n] = {"str"}
                /\ hd[n + 1] = PyInt(HERO_LAST_DRAW)
          /\ \A i \in 0..3 :
                i # hero_idx => DrawsOf(i) = current_draws[abs_to_pos(hero_idx)[i]]

\* an open kan on the hero's second turn has been assembled
C6_Witness ==
    /\ pc = "done"
    /\ HERO_LAST_ACTION = "KAN"
    /\ n = 2
    /\ Len(DrawsOf(hero_idx)) = 3

\* C9: with DISCARD or RIICHI every seat but the winner has as many
\* discards as draws, and the winner one draw more than discards.
C9_DrawsAlignWithDiscards ==
    (pc = "done" /\ HERO_LAST_ACTION \in {"DISCARD", "RIICHI"}) =>
       \A i \in 0..3 :
          IF abs_to_pos(hero_idx)[i] = "SHIMO"
          THEN Len(DrawsOf(i)) = Len(DiscardsOf(i)) + 1
          ELSE Len(DrawsOf(i)) = Len(DiscardsOf(i))

-----------------------------------------------------------------------------
(* Properties of build_other_player_discards *)

\* C7: the list has num_discards entries; with a configured turn T in
\* 1..num_discards entry T is 'r60' and every other entry 60; otherwise
\* every entry is 60.
C7_OneRiichiTag ==
    pc = "returned" =>
       LET c == args.num_discards
           e == OTHER_PLAYERS_ACTIONS[args.rel_pos]
           configured == e.present /\ e.has_turn
           T == e.RIICHI_TURN
           tagged == {i \in 1..Len(ret) : ret[i] = PyStr(<<"r", "6", "0">>)}
           plain == {i \in 1..Len(ret) : ret[i] = PyInt(60)}
       IN /\ Len(ret) = c
          /\ tagged \cup plain = 1..c
          /\ IF configured /\ 1 <= T /\ T <= c
             THEN tagged = {T}
             ELSE tagged = {}

\* riichi on the last of several discards
C7_Witness ==
    /\ pc = "returned"
    /\ args.num_discards > 1
    /\ OTHER_PLAYERS_ACTIONS[args.rel_pos] = Turn(args.num_discards)
    /\ ret[args.num_discards] = PyStr(<<"r", "6", "0">>)

-----------------------------------------------------------------------------
(* Properties of generate_call_notation *)

\* the decimal string of a tile value below 100
Decimal(v) == IF v < 10 THEN <<DigitChar[v + 1]>>
              ELSE <<DigitChar[(v \div 10) + 1], DigitChar[(v % 10) + 1]>>

Markers == {"c", "p", "m", "a"}
MarkerAt(s) == {i \in 1..Len(s) : s[i] \in Markers}
Without(s, i) == SubSeq(s, 1, i - 1) \o SubSeq(s, i + 1, Len(s))

\* s is k copies of t with the one marker mark before copy number slot + 1
MarkedRepeat(s, mark, k, slot, t) ==
    LET at == slot * Len(t) + 1
    IN /\ MarkerAt(s) = {at}
       /\ s[at] = mark
       /\ Len(s) = k * Len(t) + 1
       /\ \A j \in 0..(k - 1) :
             SubSeq(Without(s, at), j * Len(t) + 1, (j + 1) * Len(t)) = t

ValidSources == {"KAMI", "TOIMEN", "SHIMO"}

C5_Case ==
    /\ pc = "returned"
    /\ args.action \in {"CHI", "PON", "KAN", "ANKAN"}
    /\ args.tile >= 10
    /\ args.source \in ValidSources
    /\ args.action = "CHI" =>
          args.tile # args.chi_tiles[1] /\ args.tile # args.chi_tiles[2]

C5_Marker ==
    CASE args.action = "CHI" -> "c" [] args.action = "PON" -> "p"
      [] args.action = "KAN" -> "m" [] OTHER -> "a"

\* C5 as stated: 6 characters for CHI and PON, 8 for KAN and ANKAN, one of
\* them the marker.
C5_LengthSixEight ==
    C5_Case =>
       /\ Len(ret.str) = IF args.action \in {"CHI", "PON"} THEN 6 ELSE 8
       /\ Cardinality(MarkerAt(ret.str)) = 1
       /\ \A i \in MarkerAt(ret.str) : ret.str[i] = C5_Marker

\* C5 amended: 7 characters for CHI and PON, 9 for KAN and ANKAN (the 6 or
\* 8 digits of the tiles and the marker), exactly one of them the marker.
C5_LengthSevenNine ==
    C5_Case =>
       /\ Len(ret.str) = IF args.action \in {"CHI", "PON"} THEN 7 ELSE 9
       /\ Cardinality(MarkerAt(ret.str)) = 1
       /\ \A i \in MarkerAt(ret.str) : ret.str[i] = C5_Marker

\* a chi of a red five has been encoded
C5_Witness ==
    /\ C5_Case
    /\ args.action = "CHI"
    /\ args.tile = 51
    /\ args.chi_tiles = <<16, 14>>
    /\ Len(ret.str) = 7

====
